---- MODULE Spec2Model ----
(***************************************************************************)
(* Model of the request throttler of src/adaptors/throttle.rs: the worker  *)
(* task, the admission channel between the request futures and the worker, *)
(* and the Registering/Pending/Sent/Done state machine of ThrottlingSend   *)
(* and ThrottlingSendRef.                                                  *)
(*                                                                         *)
(* Time.  An Instant is kept as its age, the distance from the present, in *)
(* units of DELAY (250 ms).  `time < min_back` is `age > MINUTE` and       *)
(* `time > sec_back` is `age < SECOND`.  All ages above MINUTE behave the  *)
(* same way in the code, so ages saturate at AgeCap.  The worker's body    *)
(* between two await points runs at one clock reading.                     *)
(***************************************************************************)
EXTENDS Integers, Sequences, FiniteSets, TLC

\* ---------------------------------------------------------------- constants
DELAY == 1
SECOND == 4 * DELAY
MINUTE == 60 * SECOND
AgeCap == MINUTE + 1

\* ------------------------------------------------------------------- bounds
MaxReq == 3

\* N of the scenario "global cap binds" ranges over 1..MaxN; it fires 2N requests.
MaxN == 3

\* Identifiers of the requests of a run.
Reqs == 1..(IF MaxReq > 2 * MaxN THEN MaxReq ELSE 2 * MaxN)

\* Requests made under FutSpec, which follows every poll of every future.
MaxFut == 2

\* Clock advances offered to the environment.
TickSteps == {DELAY, MINUTE}

\* The Limits values the model is started with.
Limits(sc, mc, so) ==
    [messages_per_sec_chat |-> sc, messages_per_min_chat |-> mc, messages_per_sec_overall |-> so]

LimitsSet == {Limits(1, 2, 1), Limits(1, 2, 2), Limits(2, 1, 2), Limits(2, 3, 2)}

\* The limits of the scenario "global cap binds": one per second and chat,
\* twenty per minute and chat, N per second overall.
ScenarioLimitsSet == {Limits(1, 20, n) : n \in 1..MaxN}

\* The chat of request r in the scenario: every request has a chat of its own.
ScenarioChat(r) == [tag |-> "Id", v |-> r]

\* ChatId values used by the requests: a numeric id and a channel username.
ChatIds == {[tag |-> "Id", v |-> 1], [tag |-> "ChannelUsername", v |-> "a"]}

\* DefaultHasher of a username; the username "a" hashes to the number 1.
UsernameHash(u) == CASE u = "a" -> 1 [] OTHER -> 2

\* A ChatIdHash that is the bare number: the id, or the hash of the username.
ChatIdHashUntagged(c) ==
    [tag |-> "Id", v |-> IF c.tag = "Id" THEN c.v ELSE UsernameHash(c.v)]

\* impl From<&ChatId> for ChatIdHash
ChatIdHash(c) ==
    IF c.tag = "Id" THEN [tag |-> "Id", v |-> c.v]
    ELSE [tag |-> "ChannelUsernameHash", v |-> UsernameHash(c.v)]

Keys == {ChatIdHash(c) : c \in ChatIds}

NoChat == [tag |-> "none", v |-> 0]

VARIABLES
    limits,        \* Limits given to Throttle::new
    wrapperAlive,  \* the Throttle value (holds one mpsc::Sender) still exists
    chan,          \* buffer of the mpsc channel: sequence of (ChatIdHash, Sender)
    queue,         \* worker: queue
    history,       \* worker: history, front first
    per_min,       \* worker: requests_sent.per_min
    per_sec,       \* worker: requests_sent.per_sec
    rx_is_closed,  \* worker: rx_is_closed
    wpc,           \* worker position: recv, sleep, spin, done, gone
    sleepLeft,     \* time left of the current tokio::time::sleep(DELAY)
    fstate,        \* per request: Idle, Registering, Pending, Sent, Done, Dropped
    fkind,         \* per request: "val" (send) or "ref" (send_ref)
    fchat,         \* per request: the ChatIdHash computed by send/send_ref
    reqAlive,      \* per request: its ThrottlingRequest (holds a Sender clone) exists
    closed,        \* per request: its oneshot Sender has been dropped
    sendRes,       \* per request: result the ChanSend future returned
    result,        \* per request: value the future yielded
    callOut,       \* per request: result the underlying call's future returned
    lastPoll,      \* per request: what the last poll returned: Pending or Ready
    trace,         \* per request: the states the future has been in, in order
    sigLog,        \* admissions signalled by the worker, in order
    enqOrder,      \* requests in the order they entered the channel
    dispLog        \* requests in the order their underlying call was started

workerVars == <<chan, queue, history, per_min, per_sec, rx_is_closed, wpc, sleepLeft>>
futVars == <<fstate, fkind, fchat, reqAlive, sendRes, result, callOut, lastPoll, trace>>
logVars == <<sigLog, enqOrder, dispLog>>
vars == <<limits, wrapperAlive, workerVars, futVars, closed, logVars>>

\* ------------------------------------------------------------------ helpers
EmptyMap == [k \in {} |-> 0]

\* HashMap::get(..).copied().unwrap_or(0)
Get(m, k) == IF k \in DOMAIN m THEN m[k] ELSE 0

\* *map.entry(k).or_insert(0) += 1
Incr(m, k) == [x \in (DOMAIN m) \cup {k} |-> IF x = k THEN Get(m, k) + 1 ELSE m[x]]

\* The decrement with the entry left in the map when it reaches 0.
DecrKeepZero(m, k) ==
    IF k \notin DOMAIN m THEN m ELSE [m EXCEPT ![k] = m[k] - 1]

\* map.entry(k).and_modify(|c| *c -= 1), then remove the entry if it is 0
Decr(m, k) ==
    IF k \notin DOMAIN m THEN m
    ELSE IF m[k] - 1 = 0 THEN [x \in (DOMAIN m) \ {k} |-> m[x]]
    ELSE [m EXCEPT ![k] = m[k] - 1]

Min(a, b) == IF a < b THEN a ELSE b
Max(a, b) == IF a > b THEN a ELSE b

\* u32::saturating_sub
SaturatingSub(a, b) == Max(0, a - b)

Range(s) == {s[i] : i \in DOMAIN s}

\* Ages after the clock advanced by d.
Aged(s, d) == [i \in DOMAIN s |-> [s[i] EXCEPT !.age = Min(AgeCap, s[i].age + d)]]

\* A channel that buffers one message more than it was made for.
CapacityPlusOne == limits.messages_per_sec_overall + 1

\* mpsc::channel(limits.messages_per_sec_overall as usize)
Capacity == limits.messages_per_sec_overall

\* Some mpsc::Sender exists: the Throttle, a ThrottlingRequest, or the ChanSend
\* of a future that has not finished its send.
SendersAlive ==
    \/ wrapperAlive
    \/ \E r \in Reqs : reqAlive[r]
    \/ \E r \in Reqs : fstate[r] = "Registering"

\* ------------------------------------------------------------------- worker
\* A trim that removes nothing.
TrimNothing(h, pm) == [history |-> h, per_min |-> pm]

\* while let Some((_, time)) = history.front() { if time >= &min_back { break } ... }
RECURSIVE TrimHistory(_, _)
TrimHistory(h, pm) ==
    IF h = <<>> \/ Head(h).age <= MINUTE THEN [history |-> h, per_min |-> pm]
    ELSE TrimHistory(Tail(h), Decr(pm, Head(h).chat))

\* A count of the last second that finds no record at all.
TakeWhileNothing(h) == <<>>

\* history.iter().take_while(|(_, time)| time > &sec_back)
RECURSIVE TakeWhileLastSec(_)
TakeWhileLastSec(h) ==
    IF h = <<>> \/ ~(Head(h).age < SECOND) THEN <<>>
    ELSE <<Head(h)>> \o TakeWhileLastSec(Tail(h))

\* for (chat, _) in ... { *requests_sent.per_sec.entry(*chat).or_insert(0) += 1 }
RECURSIVE CountChats(_, _)
CountChats(s, m) ==
    IF s = <<>> THEN m ELSE CountChats(Tail(s), Incr(m, Head(s).chat))

\* A test that lets a count equal to the limit pass.
LimitsNotExceededInclusive(ps, pm, chat) ==
    LET requests_sent_count == Get(ps, chat)
    IN  /\ requests_sent_count <= limits.messages_per_sec_chat
        /\ requests_sent_count <= limits.messages_per_min_chat

\* limits_not_exceeded for an entry of the queue
LimitsNotExceeded(ps, pm, chat) ==
    LET requests_sent_count == Get(ps, chat)
    IN  /\ requests_sent_count < limits.messages_per_sec_chat
        /\ requests_sent_count < limits.messages_per_min_chat

\* An admission that leaves no record in history.
PushNothing(h, chat) == h

\* A record put at the front of history.
PushFront(h, chat) == <<[chat |-> chat, age |-> 0]>> \o h

\* history.push_back((*chat, Instant::now()))
PushBack(h, chat) == Append(h, [chat |-> chat, age |-> 0])

\* *requests_sent.per_sec.entry(*chat).or_insert(0) += 1, for an admission
Tally(ps, chat) == Incr(ps, chat)

\* A budget that an admission leaves as it was.
SpendNothing(allowed) == allowed

\* allowed -= 1
Spend(allowed) == allowed - 1

\* A walk that ends at the first entry it does not admit.
SkipAndStop(rest, kept) == [rest |-> <<>>, kept |-> kept \o rest]

\* An entry that is not admitted stays in the queue and the walk goes on to
\* the next one: `rest` starts with the entry, `kept` are the entries that
\* stayed so far.
Skip(rest, kept) == [rest |-> Tail(rest), kept |-> Append(kept, Head(rest))]

\* A queue that loses the entries the walk did not visit.
UnvisitedLost(kept, rest) == kept

\* The queue when the walk ends: the entries that stayed, then the entries
\* the walk did not visit (the drop of queue_removing).
Unvisited(kept, rest) == kept \o rest

\* The walk over queue.removing(): `rest` is the part not yet visited, `kept`
\* the visited entries that stay in the queue.
RECURSIVE AdmitWalk(_, _, _, _, _, _, _)
AdmitWalk(rest, kept, ps, pm, h, allowed, admitted) ==
    IF rest = <<>> THEN
        [queue |-> Unvisited(kept, rest), per_sec |-> ps, per_min |-> pm, history |-> h,
         allowed |-> allowed, admitted |-> admitted]
    ELSE
        LET entry == Head(rest)
            chat == entry.chat
        IN  IF LimitsNotExceeded(ps, pm, chat) THEN
                IF Spend(allowed) = 0 THEN
                    \* break: the entries not visited stay, in order
                    [queue |-> Unvisited(kept, Tail(rest)), per_sec |-> Tally(ps, chat),
                     per_min |-> Incr(pm, chat),
                     history |-> PushBack(h, chat),
                     allowed |-> Spend(allowed), admitted |-> Append(admitted, entry)]
                ELSE
                    AdmitWalk(Tail(rest), kept, Tally(ps, chat), Incr(pm, chat),
                              PushBack(h, chat), Spend(allowed),
                              Append(admitted, entry))
            ELSE
                LET next == Skip(rest, kept)
                IN  AdmitWalk(next.rest, next.kept, ps, pm, h, allowed, admitted)

\* read_from_rx that pushes every request it receives twice.
ReadFromRxTwice(q, c, open) ==
    [queue |-> q \o c \o c,
     chan |-> <<>>,
     blocked |-> q = <<>> /\ c = <<>> /\ open,
     spins |-> ~open]

\* read_from_rx with Vec::insert(0, req) for Vec::push(req).
ReadFromRxFront(q, c, open) ==
    [queue |-> c \o q,
     chan |-> <<>>,
     blocked |-> q = <<>> /\ c = <<>> /\ open,
     spins |-> ~open]

\* read_from_rx: what it leaves in the queue and the channel.  `blocked` is the
\* rx.recv().await on an empty open channel; `spins` is the drain loop that a
\* closed channel never lets end (recv() is Ready(None) again and again).
ReadFromRx(q, c, open) ==
    [queue |-> q \o c,
     chan |-> <<>>,
     blocked |-> q = <<>> /\ c = <<>> /\ open,
     spins |-> ~open]

\* The body of an iteration that goes into the walk whatever `allowed` is.
IterationNoPause(q) ==
    LET trimmed == TrimHistory(history, per_min)
        lastSec == TakeWhileLastSec(trimmed.history)
        allowed == SaturatingSub(limits.messages_per_sec_overall, Len(lastSec))
        w == AdmitWalk(q, <<>>, CountChats(lastSec, per_sec), trimmed.per_min,
                       trimmed.history, allowed, <<>>)
    IN  [w EXCEPT !.per_sec = EmptyMap]

\* A clear that leaves the map as it is.
ClearNothing(ps) == ps

\* requests_sent.per_sec.clear()
Clear(ps) == EmptyMap

\* The body of one iteration after read_from_rx, on queue q.
Iteration(q) ==
    LET trimmed == TrimHistory(history, per_min)
        lastSec == TakeWhileLastSec(trimmed.history)
        used == Len(lastSec)
        allowed == SaturatingSub(limits.messages_per_sec_overall, used)
    IN  IF allowed = 0 THEN
            [queue |-> q, per_sec |-> Clear(per_sec), per_min |-> trimmed.per_min,
             history |-> trimmed.history, allowed |-> 0, admitted |-> <<>>]
        ELSE
            LET w == AdmitWalk(q, <<>>, CountChats(lastSec, per_sec), trimmed.per_min,
                               trimmed.history, allowed, <<>>)
            IN  [w EXCEPT !.per_sec = Clear(w.per_sec)]

\* The log entries of the admissions adm: the request, its chat, the time, and
\* whether the request's future (the oneshot Receiver) still existed when its
\* Sender was dropped, which the worker does not look at.
SigEntries(adm) ==
    [i \in DOMAIN adm |->
        [req |-> adm[i].tx, chat |-> adm[i].chat, age |-> 0,
         live |-> fstate[adm[i].tx] # "Dropped"]]

\* One pass of the worker from the top of its loop (or from the blocking
\* recv) to its next await point.
WorkerIterate ==
    /\ wpc = "recv" \/ (wpc = "sleep" /\ sleepLeft = 0)
    /\ IF wpc = "sleep" /\ rx_is_closed /\ queue = <<>> THEN
           \* while !rx_is_closed || !queue.is_empty()
           /\ wpc' = "done"
           /\ closed' = [r \in Reqs |-> closed[r] \/ \E i \in DOMAIN chan : chan[i].tx = r]
           /\ chan' = <<>>
           /\ UNCHANGED <<queue, history, per_min, per_sec, rx_is_closed, sleepLeft, sigLog>>
       ELSE
           LET rd == ReadFromRx(queue, chan, SendersAlive)
           IN  IF rd.blocked THEN
                   /\ wpc = "sleep"
                   /\ wpc' = "recv"
                   /\ UNCHANGED <<chan, queue, history, per_min, per_sec, rx_is_closed,
                                  sleepLeft, closed, sigLog>>
               ELSE IF rd.spins THEN
                   /\ wpc' = "spin"
                   /\ rx_is_closed' = TRUE
                   /\ queue' = rd.queue
                   /\ chan' = rd.chan
                   /\ UNCHANGED <<history, per_min, per_sec, sleepLeft, closed, sigLog>>
               ELSE
                   LET it == Iteration(rd.queue)
                   IN  /\ queue' = it.queue
                       /\ chan' = rd.chan
                       /\ history' = it.history
                       /\ per_min' = it.per_min
                       /\ per_sec' = it.per_sec
                       /\ closed' = [r \in Reqs |->
                                        closed[r] \/ \E i \in DOMAIN it.admitted : it.admitted[i].tx = r]
                       /\ sigLog' = sigLog \o SigEntries(it.admitted)
                       /\ wpc' = "sleep"
                       /\ sleepLeft' = DELAY
                       /\ UNCHANGED rx_is_closed
    /\ UNCHANGED <<limits, wrapperAlive, futVars, enqOrder, dispLog>>

\* The worker future is dropped at one of its await points: the receiver, the
\* channel buffer and the queue go, and with them every oneshot Sender in them.
WorkerDrop ==
    /\ wpc \in {"recv", "sleep"}
    /\ wpc' = "gone"
    /\ closed' = [r \in Reqs |-> \/ closed[r]
                                 \/ \E i \in DOMAIN chan : chan[i].tx = r
                                 \/ \E i \in DOMAIN queue : queue[i].tx = r]
    /\ chan' = <<>>
    /\ queue' = <<>>
    /\ history' = <<>>
    /\ per_min' = EmptyMap
    /\ UNCHANGED <<per_sec, rx_is_closed, sleepLeft>>
    /\ UNCHANGED <<limits, wrapperAlive, futVars, logVars>>

\* The mpsc::Receiver no longer exists: every send fails.
ReceiverGone == wpc \in {"gone", "done"}

\* ---------------------------------------------------------- request futures
\* send / send_ref that put the admission request on the channel themselves,
\* when it has room, before the future is polled.
CreateEager(r, kind, c) ==
    /\ wrapperAlive
    /\ fstate[r] = "Idle"
    /\ \A q \in Reqs : q < r => fstate[q] # "Idle"
    /\ fstate' = [fstate EXCEPT ![r] = "Registering"]
    /\ fkind' = [fkind EXCEPT ![r] = kind]
    /\ fchat' = [fchat EXCEPT ![r] = ChatIdHash(c)]
    /\ reqAlive' = [reqAlive EXCEPT ![r] = (kind = "ref")]
    /\ trace' = [trace EXCEPT ![r] = <<"Registering">>]
    /\ IF wpc \in {"recv", "sleep", "spin"} /\ Len(chan) < limits.messages_per_sec_overall THEN
           /\ chan' = Append(chan, [chat |-> ChatIdHash(c), tx |-> r])
           /\ enqOrder' = Append(enqOrder, r)
       ELSE UNCHANGED <<chan, enqOrder>>
    /\ UNCHANGED <<limits, wrapperAlive, queue, history, per_min, per_sec, rx_is_closed, wpc,
                   sleepLeft, closed, sendRes, result, callOut, lastPoll, sigLog, dispLog>>

\* ThrottlingRequest::send / send_ref: makes the oneshot channel, computes
\* the ChatIdHash and builds the future in Registering.  Nothing is polled.
Create(r, kind, c) ==
    /\ wrapperAlive
    /\ fstate[r] = "Idle"
    /\ \A q \in Reqs : q < r => fstate[q] # "Idle"
    /\ fstate' = [fstate EXCEPT ![r] = "Registering"]
    /\ fkind' = [fkind EXCEPT ![r] = kind]
    /\ fchat' = [fchat EXCEPT ![r] = ChatIdHash(c)]
    /\ reqAlive' = [reqAlive EXCEPT ![r] = (kind = "ref")]
    /\ trace' = [trace EXCEPT ![r] = <<"Registering">>]
    /\ UNCHANGED <<limits, wrapperAlive, workerVars, closed, sendRes, result, callOut,
                   lastPoll, logVars>>

\* The Requester methods of Throttle that return a ThrottlingRequest.
ThrottledMethods ==
    {"send_message", "forward_message", "send_photo", "send_audio", "send_document",
     "send_video", "send_animation", "send_voice", "send_video_note", "send_media_group",
     "send_location", "send_venue", "send_contact", "send_poll", "send_dice",
     "send_sticker", "send_invoice"}

\* The Requester methods of Throttle that return the request of the inner bot.
PassThroughMethods ==
    {"get_me", "get_updates", "set_webhook", "delete_webhook", "get_webhook_info",
     "edit_message_live_location", "edit_message_live_location_inline",
     "stop_message_live_location", "stop_message_live_location_inline", "send_chat_action",
     "get_user_profile_photos", "get_file", "kick_chat_member", "unban_chat_member",
     "restrict_chat_member", "promote_chat_member", "set_chat_administrator_custom_title",
     "set_chat_permissions", "export_chat_invite_link", "set_chat_photo",
     "delete_chat_photo", "set_chat_title", "set_chat_description", "pin_chat_message",
     "unpin_chat_message", "leave_chat", "get_chat", "get_chat_administrators",
     "get_chat_members_count", "get_chat_member", "set_chat_sticker_set",
     "delete_chat_sticker_set", "answer_callback_query", "set_my_commands",
     "get_my_commands", "answer_inline_query", "edit_message_text",
     "edit_message_text_inline", "edit_message_caption", "edit_message_caption_inline",
     "edit_message_media", "edit_message_media_inline", "edit_message_reply_markup",
     "edit_message_reply_markup_inline", "stop_poll", "delete_message", "get_sticker_set",
     "upload_sticker_file", "create_new_sticker_set", "add_sticker_to_set",
     "set_sticker_position_in_set", "delete_sticker_from_set", "set_sticker_set_thumb",
     "answer_shipping_query", "answer_pre_checkout_query", "set_passport_data_errors",
     "send_game", "set_game_score", "set_game_score_inline", "get_game_high_scores"}

Methods == ThrottledMethods \cup PassThroughMethods

\* A pass-through method whose request also goes through the admission channel.
PassThroughQueued(r) ==
    /\ wrapperAlive
    /\ fstate[r] = "Idle"
    /\ \A q \in Reqs : q < r => fstate[q] # "Idle"
    /\ ~ReceiverGone /\ Len(chan) < Capacity
    /\ fstate' = [fstate EXCEPT ![r] = "Sent"]
    /\ fkind' = [fkind EXCEPT ![r] = "pass"]
    /\ trace' = [trace EXCEPT ![r] = <<"Sent">>]
    /\ dispLog' = Append(dispLog, r)
    /\ chan' = Append(chan, [chat |-> fchat[r], tx |-> r])
    /\ enqOrder' = Append(enqOrder, r)
    /\ UNCHANGED <<limits, wrapperAlive, queue, history, per_min, per_sec, rx_is_closed, wpc,
                   sleepLeft, fchat, reqAlive, closed, sendRes, result, callOut, lastPoll,
                   sigLog>>

\* A method forwarded with fid, and send() on the request it returns: the
\* request and its future are the inner bot's, the call goes out at once.
PassThrough(r) ==
    /\ wrapperAlive
    /\ fstate[r] = "Idle"
    /\ \A q \in Reqs : q < r => fstate[q] # "Idle"
    /\ fstate' = [fstate EXCEPT ![r] = "Sent"]
    /\ fkind' = [fkind EXCEPT ![r] = "pass"]
    /\ trace' = [trace EXCEPT ![r] = <<"Sent">>]
    /\ dispLog' = Append(dispLog, r)
    /\ UNCHANGED <<limits, wrapperAlive, workerVars, fchat, reqAlive, closed, sendRes, result,
                   callOut, lastPoll, sigLog, enqOrder>>

\* A call of method m on the Throttle, followed by send() or send_ref() on the
\* request it returns.
Call(r, m, kind, c) ==
    IF m \in ThrottledMethods THEN Create(r, kind, c) ELSE PassThrough(r)

\* send.poll(cx) that stays pending on a channel whose receiver is gone.
SendPollNoError ==
    IF ~ReceiverGone /\ Len(chan) < Capacity THEN "ok" ELSE "pending"

\* What send.poll(cx) returns for a future in Registering.
SendPoll ==
    IF ReceiverGone THEN "err"
    ELSE IF Len(chan) < Capacity THEN "ok"
    ELSE "pending"

\* The Registering arm with Err(_) handled like Ok(()).
AfterRegisteringAlwaysPending(res) ==
    CASE res = "ok" -> "Pending"
      [] res = "err" -> "Pending"
      [] OTHER -> "Registering"

\* State after the Registering arm of ThrottlingSend::poll.
AfterRegistering(res) ==
    CASE res = "ok" -> "Pending"
      [] res = "err" -> "Sent"
      [] OTHER -> "Registering"

\* The Pending arm going on to Sent without looking at wait.poll(cx).
AfterPendingNoWait(isClosed) == "Sent"

\* State after the Pending arm of ThrottlingSend::poll: wait.poll(cx) is
\* ready once the Sender is dropped.
AfterPending(isClosed) == IF isClosed THEN "Sent" ELSE "Pending"

\* A Sent arm that goes back to wait for the signal while the call is pending.
AfterSentRewait(out) == IF out = "pending" THEN "Pending" ELSE "Done"

\* State after the Sent arm of ThrottlingSend::poll, `out` being what
\* fut.poll(cx) returns.
AfterSent(out) == IF out = "pending" THEN "Sent" ELSE "Done"

\* Poll::Ready(res) with an error of the throttler's own in place of res.
ReadyOwnError(res) == "err"

\* Poll::Ready(res) of ThrottlingSend::poll: the value the throttled future
\* yields for the result res of the underlying future.
Ready(res) == res

\* State after the Registering arm of ThrottlingSendRef::poll.
RefAfterRegistering(res) ==
    CASE res = "ok" -> "Pending"
      [] res = "err" -> "Sent"
      [] OTHER -> "Registering"

\* State after the Pending arm of ThrottlingSendRef::poll.
RefAfterPending(isClosed) == IF isClosed THEN "Sent" ELSE "Pending"

\* State after the Sent arm of ThrottlingSendRef::poll.
RefAfterSent(out) == IF out = "pending" THEN "Sent" ELSE "Done"

\* Poll::Ready(res) of ThrottlingSendRef::poll.
RefReady(res) == res

\* An underlying call that is started by every poll that finds or puts the
\* future in Sent.
StartsAtEveryPoll(s0, s2) == s2 = "Sent"

\* The underlying call is started by the poll that puts the future in Sent,
\* from s0: request.send() in the Registering and the Pending arm, and for
\* send_ref the first poll of the future that send_ref() made.
Starts(s0, s2) == s0 # "Sent" /\ s2 = "Sent"

\* <ThrottlingSend as Future>::poll and <ThrottlingSendRef as Future>::poll,
\* with the self.poll(cx) that follows a change of state.  `out` is what the
\* underlying future returns if this poll reaches it.
Poll(r, out) ==
    /\ fstate[r] \in {"Registering", "Pending", "Sent", "Done"}
    /\ LET s0 == fstate[r]
           res == IF s0 = "Registering" THEN SendPoll ELSE "none"
           ref == fkind[r] = "ref"
           s1 == IF s0 # "Registering" THEN s0
                 ELSE IF ref THEN RefAfterRegistering(res) ELSE AfterRegistering(res)
           \* a request whose send succeeded in this poll is in the channel
           ready == closed[r] /\ s0 = "Pending"
           s2 == IF s1 # "Pending" THEN s1
                 ELSE IF ref THEN RefAfterPending(ready) ELSE AfterPending(ready)
           s3 == IF s2 # "Sent" THEN s2
                 ELSE IF ref THEN RefAfterSent(out) ELSE AfterSent(out)
           starts == Starts(s0, s2)
           \* fut.poll(cx) was ready in this poll
           finished == s3 = "Done" /\ s2 = "Sent"
           path == (IF s1 # s0 THEN <<s1>> ELSE <<>>) \o
                   (IF s2 # s1 THEN <<s2>> ELSE <<>>) \o
                   (IF s3 # s2 THEN <<s3>> ELSE <<>>)
       IN  /\ fstate' = [fstate EXCEPT ![r] = s3]
           /\ trace' = [trace EXCEPT ![r] = trace[r] \o path]
           /\ sendRes' = IF res \in {"ok", "err"} THEN [sendRes EXCEPT ![r] = res] ELSE sendRes
           /\ chan' = IF res = "ok" THEN Append(chan, [chat |-> fchat[r], tx |-> r]) ELSE chan
           /\ enqOrder' = IF res = "ok" THEN Append(enqOrder, r) ELSE enqOrder
           \* the Sender comes back inside the SendError and is dropped with it
           /\ closed' = IF res = "err" THEN [closed EXCEPT ![r] = TRUE] ELSE closed
           /\ dispLog' = IF starts THEN Append(dispLog, r) ELSE dispLog
           /\ callOut' = IF finished THEN [callOut EXCEPT ![r] = out] ELSE callOut
           /\ result' = IF finished
                        THEN [result EXCEPT ![r] = IF ref THEN RefReady(out) ELSE Ready(out)]
                        ELSE result
           \* SendProj::Done => Poll::Pending
           /\ lastPoll' = [lastPoll EXCEPT ![r] = IF finished THEN "Ready" ELSE "Pending"]
    /\ UNCHANGED <<limits, wrapperAlive, queue, history, per_min, per_sec, rx_is_closed,
                   wpc, sleepLeft, fkind, fchat, reqAlive, sigLog>>

\* Position of the newest record of chat k in history h, 0 if there is none.
LastRecord(h, k) ==
    IF \E i \in DOMAIN h : h[i].chat = k
    THEN CHOOSE i \in DOMAIN h : h[i].chat = k /\ \A j \in DOMAIN h : h[j].chat = k => j <= i
    ELSE 0

\* A drop that gives the admission of a signalled future back: the newest
\* record of its chat leaves history and the per-minute tally.
DropFutureRefund(r) ==
    /\ fstate[r] \in {"Registering", "Pending", "Sent"}
    /\ fstate' = [fstate EXCEPT ![r] = "Dropped"]
    /\ closed' = IF fstate[r] = "Registering" THEN [closed EXCEPT ![r] = TRUE] ELSE closed
    /\ LET p == LastRecord(history, fchat[r])
       IN  IF closed[r] /\ fstate[r] = "Pending" /\ p > 0 THEN
               /\ history' = SubSeq(history, 1, p - 1) \o SubSeq(history, p + 1, Len(history))
               /\ per_min' = Decr(per_min, fchat[r])
           ELSE UNCHANGED <<history, per_min>>
    /\ UNCHANGED <<limits, wrapperAlive, chan, queue, per_sec, rx_is_closed, wpc, sleepLeft,
                   fkind, fchat, reqAlive, sendRes, result, callOut, lastPoll, trace, logVars>>

\* A drop that takes the future's admission request out of the channel and
\* out of the queue.
DropFutureUnqueue(r) ==
    /\ fstate[r] \in {"Registering", "Pending", "Sent"}
    /\ fstate' = [fstate EXCEPT ![r] = "Dropped"]
    /\ closed' = [closed EXCEPT ![r] = TRUE]
    /\ chan' = SelectSeq(chan, LAMBDA e : e.tx # r)
    /\ queue' = SelectSeq(queue, LAMBDA e : e.tx # r)
    /\ UNCHANGED <<limits, wrapperAlive, history, per_min, per_sec, rx_is_closed, wpc,
                   sleepLeft, fkind, fchat, reqAlive, sendRes, result, callOut, lastPoll,
                   trace, logVars>>

\* The caller drops a future that has not completed.
DropFuture(r) ==
    /\ fstate[r] \in {"Registering", "Pending", "Sent"}
    /\ fstate' = [fstate EXCEPT ![r] = "Dropped"]
    /\ closed' = IF fstate[r] = "Registering" THEN [closed EXCEPT ![r] = TRUE] ELSE closed
    /\ UNCHANGED <<limits, wrapperAlive, workerVars, fkind, fchat, reqAlive, sendRes,
                   result, callOut, lastPoll, trace, logVars>>

\* The caller drops the ThrottlingRequest it called send_ref on.
DropRequest(r) ==
    /\ reqAlive[r]
    /\ reqAlive' = [reqAlive EXCEPT ![r] = FALSE]
    /\ UNCHANGED <<limits, wrapperAlive, workerVars, fstate, fkind, fchat, closed, sendRes,
                   result, callOut, lastPoll, trace, logVars>>

\* The Throttle value is dropped.
DropWrapper ==
    /\ wrapperAlive
    /\ wrapperAlive' = FALSE
    /\ UNCHANGED <<limits, workerVars, futVars, closed, logVars>>

\* -------------------------------------------------------------------- clock
\* The clock advances by d while the worker lives.  It moves in steps of DELAY
\* while the worker's sleep is running or an admission is younger than a
\* second, and by MINUTE at any time.
Tick(d) ==
    /\ wpc \in {"recv", "sleep"}
    /\ d = DELAY => (sleepLeft > 0 \/ \E i \in DOMAIN sigLog : sigLog[i].age < SECOND)
    /\ \/ sleepLeft > 0
       \/ \E i \in DOMAIN sigLog : sigLog[i].age < AgeCap
    /\ sleepLeft' = SaturatingSub(sleepLeft, d)
    /\ history' = Aged(history, d)
    /\ sigLog' = Aged(sigLog, d)
    /\ UNCHANGED <<limits, wrapperAlive, chan, queue, per_min, per_sec, rx_is_closed, wpc,
                   futVars, closed, enqOrder, dispLog>>

\* ------------------------------------------------------------ specification
\* The state after Throttle::new, whatever the limits.
InitState ==
    /\ wrapperAlive = TRUE
    /\ chan = <<>>
    /\ queue = <<>>
    /\ history = <<>>
    /\ per_min = EmptyMap
    /\ per_sec = EmptyMap
    /\ rx_is_closed = FALSE
    /\ wpc = "recv"
    /\ sleepLeft = 0
    /\ fstate = [r \in Reqs |-> "Idle"]
    /\ fkind = [r \in Reqs |-> "none"]
    /\ fchat = [r \in Reqs |-> NoChat]
    /\ reqAlive = [r \in Reqs |-> FALSE]
    /\ closed = [r \in Reqs |-> FALSE]
    /\ sendRes = [r \in Reqs |-> "none"]
    /\ result = [r \in Reqs |-> "none"]
    /\ callOut = [r \in Reqs |-> "none"]
    /\ lastPoll = [r \in Reqs |-> "none"]
    /\ trace = [r \in Reqs |-> <<>>]
    /\ sigLog = <<>>
    /\ enqOrder = <<>>
    /\ dispLog = <<>>

Init == limits \in LimitsSet /\ InitState

Next ==
    \/ \E r \in 1..MaxReq, kind \in {"val", "ref"}, c \in ChatIds : Create(r, kind, c)
    \/ \E r \in Reqs, out \in {"pending", "ok", "err"} : Poll(r, out)
    \/ \E r \in Reqs : DropFuture(r)
    \/ \E r \in Reqs : DropRequest(r)
    \/ DropWrapper
    \/ WorkerIterate
    \/ WorkerDrop
    \/ \E d \in TickSteps : Tick(d)

Spec == Init /\ [][Next]_vars

\* The worker under a stream of requests: each request is made by send() and
\* its future is polled until its admission request is in the channel, one
\* request at a time, and is then left waiting.
WorkerNext ==
    \/ \E r \in 1..MaxReq, c \in ChatIds :
          /\ \A q \in Reqs : fstate[q] # "Registering"
          /\ Create(r, "val", c)
    \/ \E r \in Reqs :
          /\ fstate[r] = "Registering"
          /\ Poll(r, "pending")
    \/ DropWrapper
    \/ WorkerIterate
    \/ \E d \in TickSteps : Tick(d)

WorkerSpec == Init /\ [][WorkerNext]_vars

\* The futures and the worker together: every action, for MaxFut requests.  The
\* clock is advanced only to let the worker's sleep run out.
FutLimitsSet == {Limits(1, 2, 1), Limits(2, 3, 2)}

FutInit == Init /\ limits \in FutLimitsSet

FutNext ==
    \/ \E r \in 1..MaxFut, kind \in {"val", "ref"}, c \in ChatIds : Create(r, kind, c)
    \/ \E r \in Reqs, out \in {"pending", "ok", "err"} : Poll(r, out)
    \/ \E r \in Reqs : DropFuture(r)
    \/ \E r \in Reqs : DropRequest(r)
    \/ DropWrapper
    \/ WorkerIterate
    \/ WorkerDrop
    \/ sleepLeft > 0 /\ Tick(DELAY)

FutSpec == FutInit /\ [][FutNext]_vars

\* The worker under a stream of requests of which the caller drops some while
\* they wait, in Registering or in Pending.  The Throttle stays.
CancelLimitsSet == {Limits(1, 2, 2)}

CancelInit == Init /\ limits \in CancelLimitsSet

CancelNext ==
    \/ \E r \in 1..MaxReq, c \in ChatIds :
          /\ \A q \in Reqs : fstate[q] # "Registering"
          /\ Create(r, "val", c)
    \/ \E r \in 1..MaxReq :
          /\ fstate[r] = "Registering"
          /\ Poll(r, "pending")
    \/ \E r \in 1..MaxReq : DropFuture(r)
    \/ WorkerIterate
    \/ \E d \in TickSteps : Tick(d)

CancelSpec == CancelInit /\ [][CancelNext]_vars

\* CancelSpec with every future that is not dropped polled until it completes,
\* under fair scheduling of the worker, the clock and the futures.
CancelLiveNext ==
    \/ CancelNext
    \/ \E r \in 1..MaxReq :
          /\ fstate[r] = "Pending"
          /\ Poll(r, "ok")

CancelLiveSpec ==
    /\ CancelInit
    /\ [][CancelLiveNext]_vars
    /\ WF_vars(WorkerIterate)
    /\ WF_vars(\E d \in TickSteps : Tick(d))
    /\ \A r \in 1..MaxReq :
          WF_vars(fstate[r] \in {"Registering", "Pending"} /\ Poll(r, "ok"))

\* Requests made with any method of the Throttle, throttled or not, their
\* futures polled, the worker running.
MethodNext ==
    \/ \E r \in 1..MaxFut, m \in Methods, kind \in {"val", "ref"} :
          Call(r, m, kind, [tag |-> "Id", v |-> 1])
    \/ \E r \in 1..MaxFut : Poll(r, "ok")
    \/ WorkerIterate
    \/ sleepLeft > 0 /\ Tick(DELAY)

MethodSpec == FutInit /\ [][MethodNext]_vars

\* The worker has something to do: its sleep is over, or it waits in recv for
\* a channel that holds a request or is closed.
WorkerCanRun ==
    \/ wpc = "sleep" /\ sleepLeft = 0
    \/ wpc = "recv" /\ (chan # <<>> \/ queue # <<>> \/ ~SendersAlive)

\* The scenario "global cap binds": 2N requests to 2N chats are made by send()
\* and polled at time 0, one after the other, N being messages_per_sec_overall;
\* each future is polled until its admission request is in the channel.  The
\* clock moves only once all of them have been polled, in steps of DELAY, and
\* only when neither the worker nor a send can go on: tasks run as soon as
\* they can.
ScenarioInit == limits \in ScenarioLimitsSet /\ InitState

ScenarioReqs == 1..(2 * limits.messages_per_sec_overall)

ScenarioTick ==
    /\ \A r \in ScenarioReqs : lastPoll[r] # "none"
    /\ ~WorkerCanRun
    /\ \A r \in ScenarioReqs : fstate[r] = "Registering" => SendPoll = "pending"
    /\ Tick(DELAY)

ScenarioNext ==
    \/ \E r \in ScenarioReqs :
          /\ \A q \in ScenarioReqs : q < r => lastPoll[q] # "none"
          /\ Create(r, "val", ScenarioChat(r))
    \/ \E r \in ScenarioReqs :
          /\ fstate[r] = "Registering"
          /\ Poll(r, "pending")
    \/ WorkerIterate
    \/ ScenarioTick

ScenarioSpec == ScenarioInit /\ [][ScenarioNext]_vars

\* Fair scheduling of the worker under WorkerSpec: the runtime polls the worker
\* task when it can run, and time passes.
FairWorkerSpec ==
    /\ WorkerSpec
    /\ WF_vars(WorkerIterate)
    /\ WF_vars(\E d \in TickSteps : Tick(d))

\* The futures and the worker, every future being polled until it completes
\* (none is dropped, none is polled after it completed), under fair scheduling
\* of the worker and of each future.
LiveNext ==
    \/ \E r \in 1..MaxFut, kind \in {"val", "ref"}, c \in ChatIds : Create(r, kind, c)
    \/ \E r \in 1..MaxFut, out \in {"pending", "ok", "err"} :
          /\ fstate[r] # "Done"
          /\ Poll(r, out)
    \/ \E r \in Reqs : DropRequest(r)
    \/ DropWrapper
    \/ WorkerIterate
    \/ WorkerDrop
    \/ sleepLeft > 0 /\ Tick(DELAY)

LiveSpec ==
    /\ FutInit
    /\ [][LiveNext]_vars
    /\ WF_vars(WorkerIterate)
    /\ WF_vars(sleepLeft > 0 /\ Tick(DELAY))
    /\ \A r \in 1..MaxFut : WF_vars(\E out \in {"ok", "err"} : fstate[r] # "Done" /\ Poll(r, out))

\* Limits with a zero in them.
ZeroLimitsSet == {Limits(0, 2, 2), Limits(1, 0, 2), Limits(0, 0, 1), Limits(1, 2, 0)}

\* mpsc::channel(0) panics (tokio requires a buffer of at least 1), and
\* Throttle::new with it.
NewPanics == limits.messages_per_sec_overall = 0

\* The state after a call of Throttle::new that panicked: there is neither a
\* Throttle nor a worker.
PanickedState ==
    /\ wrapperAlive = FALSE
    /\ chan = <<>>
    /\ queue = <<>>
    /\ history = <<>>
    /\ per_min = EmptyMap
    /\ per_sec = EmptyMap
    /\ rx_is_closed = FALSE
    /\ wpc = "gone"
    /\ sleepLeft = 0
    /\ fstate = [r \in Reqs |-> "Idle"]
    /\ fkind = [r \in Reqs |-> "none"]
    /\ fchat = [r \in Reqs |-> NoChat]
    /\ reqAlive = [r \in Reqs |-> FALSE]
    /\ closed = [r \in Reqs |-> FALSE]
    /\ sendRes = [r \in Reqs |-> "none"]
    /\ result = [r \in Reqs |-> "none"]
    /\ callOut = [r \in Reqs |-> "none"]
    /\ lastPoll = [r \in Reqs |-> "none"]
    /\ trace = [r \in Reqs |-> <<>>]
    /\ sigLog = <<>>
    /\ enqOrder = <<>>
    /\ dispLog = <<>>

ZeroInit ==
    /\ limits \in ZeroLimitsSet
    /\ IF NewPanics THEN PanickedState ELSE InitState

\* The futures and the worker together, as in FutSpec, under limits with a
\* zero in them.
ZeroSpec == ZeroInit /\ [][FutNext]_vars

TypeOK ==
    /\ limits \in LimitsSet \cup ScenarioLimitsSet \cup ZeroLimitsSet
    /\ wpc \in {"recv", "sleep", "spin", "done", "gone"}
    /\ sleepLeft \in 0..DELAY
    /\ \A r \in Reqs : fstate[r] \in {"Idle", "Registering", "Pending", "Sent", "Done", "Dropped"}
    /\ Len(chan) <= Capacity

\* ------------------------------------------------------------------- claims
Signalled(r) == \E i \in DOMAIN sigLog : sigLog[i].req = r
SigPos(r) == CHOOSE i \in DOMAIN sigLog : sigLog[i].req = r

\* Admissions of chat k signalled less than `span` ago.
SignalsWithin(k, span) ==
    Cardinality({i \in DOMAIN sigLog : sigLog[i].chat = k /\ sigLog[i].age < span})

\* All admissions signalled less than `span` ago.
AllSignalsWithin(span) == Cardinality({i \in DOMAIN sigLog : sigLog[i].age < span})

\* C1: at every moment, for every chat key, the admissions of that chat the
\* worker signalled during the second that ends now are at most
\* messages_per_sec_chat.  (A window that holds too many signals is the second
\* that ends at its last signal, so the windows ending now cover every window.)
C1_PerChatPerSecond ==
    \A k \in Keys : SignalsWithin(k, SECOND) <= limits.messages_per_sec_chat

\* C2: at every moment the admissions of all chats signalled during the second
\* that ends now are at most messages_per_sec_overall.
C2_OverallPerSecond == AllSignalsWithin(SECOND) <= limits.messages_per_sec_overall

\* C3: at every moment, for every chat key, the admissions of that chat
\* signalled during the minute that ends now are at most messages_per_min_chat.
C3_PerChatPerMinute ==
    \A k \in Keys : SignalsWithin(k, MINUTE) <= limits.messages_per_min_chat

\* C4: of two admission requests of one chat, the one that entered the channel
\* first is signalled first: whenever the later one has been signalled, the
\* earlier one has been signalled before it.
C4_PerChatFifo ==
    \A i, j \in DOMAIN enqOrder :
        (/\ i < j
         /\ fchat[enqOrder[i]] = fchat[enqOrder[j]]
         /\ Signalled(enqOrder[j]))
        => /\ Signalled(enqOrder[i])
           /\ SigPos(enqOrder[i]) < SigPos(enqOrder[j])

\* Three requests entered the channel as a, a', b (a and a' of one chat, b of
\* another); the worker signalled a, then b past the waiting a', then a'.
C4_Witness ==
    \E i, j, k \in DOMAIN enqOrder :
        /\ i < j /\ j < k
        /\ fchat[enqOrder[i]] = fchat[enqOrder[j]]
        /\ fchat[enqOrder[k]] # fchat[enqOrder[i]]
        /\ Signalled(enqOrder[i]) /\ Signalled(enqOrder[j]) /\ Signalled(enqOrder[k])
        /\ SigPos(enqOrder[i]) < SigPos(enqOrder[k])
        /\ SigPos(enqOrder[k]) < SigPos(enqOrder[j])

Dispatched(r) == r \in Range(dispLog)
DispPos(r) == CHOOSE i \in DOMAIN dispLog : dispLog[i] = r
InChannel(r) == \E i \in DOMAIN chan : chan[i].tx = r
InQueue(r) == \E i \in DOMAIN queue : queue[i].tx = r
WorkerRuns == wpc \in {"recv", "sleep", "spin"}
ChannelClosed == ~SendersAlive /\ chan = <<>>

\* C5: of two requests of one chat that the worker both signalled and whose
\* underlying calls were both started, the one that entered the channel first
\* had its underlying call started first.
C5_DispatchOrder ==
    \A i, j \in DOMAIN enqOrder :
        (/\ i < j
         /\ fchat[enqOrder[i]] = fchat[enqOrder[j]]
         /\ Signalled(enqOrder[i]) /\ Signalled(enqOrder[j])
         /\ Dispatched(enqOrder[i]) /\ Dispatched(enqOrder[j]))
        => DispPos(enqOrder[i]) < DispPos(enqOrder[j])

\* C6: with all three limits at least 1 and the worker running, every admission
\* request that entered the channel is eventually signalled.
C6_AdmissionLiveness ==
    \A r \in Reqs :
        (/\ r \in Range(enqOrder)
         /\ limits.messages_per_sec_chat >= 1
         /\ limits.messages_per_min_chat >= 1
         /\ limits.messages_per_sec_overall >= 1) ~> Signalled(r)

\* C7: once the channel is closed (no sender left, nothing buffered) and the
\* queue is empty, the worker eventually terminates.
C7_WorkerTerminates ==
    (ChannelClosed /\ queue = <<>> /\ WorkerRuns) ~> (wpc = "done")

\* C8: a request that is buffered in the channel or waits in the queue when the
\* last sender is dropped is eventually signalled by the worker, unless the
\* worker itself is dropped.
C8_ShutdownDrains ==
    \A r \in Reqs :
        (~SendersAlive /\ (InChannel(r) \/ InQueue(r)))
            ~> (Signalled(r) \/ wpc = "gone")

\* C9: a future whose channel send failed went from Registering straight to
\* Sent, was never in Pending, and started its underlying call.
C9_DegradedMode ==
    \A r \in Reqs :
        sendRes[r] = "err"
        => /\ Len(trace[r]) >= 2
           /\ trace[r][1] = "Registering"
           /\ trace[r][2] = "Sent"
           /\ \A i \in DOMAIN trace[r] : trace[r][i] # "Pending"
           /\ Dispatched(r)

\* A by-value and a by-reference future both had their send fail and both
\* started their underlying call without any signal of the worker.
C9_Witness ==
    \E r, q \in Reqs :
        /\ fkind[r] = "val" /\ fkind[q] = "ref"
        /\ sendRes[r] = "err" /\ sendRes[q] = "err"
        /\ Dispatched(r) /\ Dispatched(q)
        /\ ~Signalled(r) /\ ~Signalled(q)

\* C10: once the worker is gone, every future that is in Registering or in
\* Pending and keeps being polled eventually starts its underlying call.
C10_NoDeadlock ==
    \A r \in 1..MaxFut :
        (wpc = "gone" /\ fstate[r] \in {"Registering", "Pending"}) ~> Dispatched(r)

\* The worker is gone; one future that was waiting for the signal (its send had
\* succeeded and the worker never signalled it) and one whose send failed have
\* both started their underlying call.
C10_Witness ==
    \E r, q \in Reqs :
        /\ wpc = "gone"
        /\ sendRes[r] = "ok" /\ ~Signalled(r) /\ Dispatched(r)
        /\ sendRes[q] = "err" /\ Dispatched(q)

\* C11: a future whose channel send succeeded has started its underlying call
\* only after its notify sender was closed, and as long as the worker exists
\* only after the worker signalled it: without a step of the worker no
\* throttled request is dispatched.
C11_SignalBeforeDispatch ==
    \A r \in Reqs :
        (fkind[r] \in {"val", "ref"} /\ Dispatched(r))
        => /\ sendRes[r] = "ok" => closed[r]
           /\ WorkerRuns => (sendRes[r] = "ok" /\ Signalled(r))

\* The worker runs and has signalled a by-value future, which has then been
\* polled into Sent and has started its call, while another request waits in
\* Pending, polled, not signalled and not dispatched.
C11_Witness ==
    \E r, q \in Reqs :
        /\ WorkerRuns
        /\ fkind[r] = "val" /\ Signalled(r) /\ Dispatched(r) /\ closed[r]
        /\ fstate[q] = "Pending" /\ ~closed[q] /\ ~Dispatched(q) /\ lastPoll[q] = "Pending"

\* The admissions the worker would signal if it ran its iteration now.
NextAdmitted == Iteration(queue \o chan).admitted

\* The records of history are the newest admissions of sigLog, in order.
HistoryIsLogSuffix ==
    /\ Len(history) <= Len(sigLog)
    /\ \A j \in DOMAIN history :
          LET e == sigLog[Len(sigLog) - Len(history) + j]
          IN  history[j] = [chat |-> e.chat, age |-> e.age]

\* C12: the drop of a future the worker has signalled leaves history, the
\* per-minute tally and what the worker would admit next unchanged; and the
\* record of every admission, of dropped futures too, is in history until it
\* is older than a minute.
C12_NoRefund ==
    /\ [](WorkerRuns =>
            /\ HistoryIsLogSuffix
            /\ \A i \in DOMAIN sigLog :
                  sigLog[i].age <= MINUTE => i > Len(sigLog) - Len(history))
    /\ [][\A r \in Reqs :
            (fstate[r] # "Dropped" /\ fstate'[r] = "Dropped" /\ Signalled(r))
            => /\ history' = history
               /\ per_min' = per_min
               /\ NextAdmitted' = NextAdmitted]_vars

\* A future was dropped after the worker signalled it; the record of its
\* admission is in history and in the per-minute tally, and on account of it
\* a later request of the same chat is held back in the queue.
C12_Witness ==
    \E r, q \in Reqs :
        /\ fstate[r] = "Dropped" /\ Signalled(r) /\ sigLog[SigPos(r)].age < SECOND
        /\ LastRecord(history, fchat[r]) > 0
        /\ Get(per_min, fchat[r]) >= 1
        /\ q # r /\ fchat[q] = fchat[r] /\ InQueue(q) /\ wpc = "sleep"
        /\ limits.messages_per_sec_chat = 1

\* C13: with waiting futures dropped at any moment, every request that is not
\* dropped is eventually signalled and completes, and at every moment the
\* admissions of one chat signalled during the second that ends now stay
\* within messages_per_sec_chat.
C13_CancelDoesNotBlock ==
    /\ \A r \in 1..MaxReq :
          (fstate[r] \in {"Registering", "Pending"})
              ~> ((Signalled(r) /\ fstate[r] = "Done") \/ fstate[r] = "Dropped")
    /\ [](\A k \in Keys :
            (\E r \in Reqs : fstate[r] = "Dropped")
            => SignalsWithin(k, SECOND) <= limits.messages_per_sec_chat)

\* C14: a throttled future yields a value only when its underlying call's
\* future has returned one, and yields exactly that value; it yields an error
\* only if the underlying call returned an error, whether the request was
\* admitted, went out in degraded mode or was released by a worker shutdown.
C14_ResultTransparency ==
    \A r \in Reqs :
        /\ result[r] \in {"none", "ok", "err"}
        /\ result[r] = callOut[r]
        /\ result[r] = "err" => callOut[r] = "err"
        /\ lastPoll[r] = "Ready" => (result[r] # "none" /\ fstate[r] = "Done")

\* The worker is gone; a future whose send failed has yielded the success of
\* its underlying call, and a future the worker had signalled has yielded the
\* error of its underlying call.
C14_Witness ==
    \E r, q \in Reqs :
        /\ wpc = "gone"
        /\ sendRes[r] = "err" /\ callOut[r] = "ok" /\ result[r] = "ok"
        /\ Signalled(q) /\ callOut[q] = "err" /\ result[q] = "err"
        /\ lastPoll[r] = "Ready" /\ lastPoll[q] = "Ready"

\* C15: the admission requests buffered in the channel are never more than
\* messages_per_sec_overall; and through any step taken while the channel is
\* full and the receiver exists, a future in Registering stays in Registering
\* (or is dropped): it does not enter the channel, is not in Pending and does
\* not start its call.
C15_BackPressure ==
    /\ [](Len(chan) <= limits.messages_per_sec_overall)
    /\ [][\A r \in Reqs :
            (/\ fstate[r] = "Registering"
             /\ Len(chan) >= limits.messages_per_sec_overall
             /\ ~ReceiverGone)
            => /\ fstate'[r] \in {"Registering", "Dropped"}
               /\ r \notin Range(enqOrder')
               /\ r \notin Range(dispLog')]_vars

\* The channel is full, a future has been polled and is still in Registering,
\* outside the channel and undispatched; the worker exists.
C15_Witness ==
    \E r \in Reqs :
        /\ Len(chan) = limits.messages_per_sec_overall
        /\ fstate[r] = "Registering" /\ lastPoll[r] = "Pending"
        /\ r \notin Range(enqOrder) /\ ~Dispatched(r)
        /\ WorkerRuns

\* Times request r entered the admission channel.
Enqueued(r) == Cardinality({i \in DOMAIN enqOrder : enqOrder[i] = r})

\* C16: there are 17 throttled methods.  A request made with one of them
\* enters the admission channel at most once, exactly once before its call
\* starts, and its call starts only after the worker signalled it.  A request
\* made with any other method never enters the channel, the queue or the
\* worker's records, and its call is started without the worker: the channel,
\* the queue and the admissions together hold exactly the throttled requests
\* that were sent.
C16_ThrottledVsPassThrough ==
    /\ Cardinality(ThrottledMethods) = 17
    /\ ThrottledMethods \cap PassThroughMethods = {}
    /\ Len(chan) + Len(queue) + Len(sigLog) = Len(enqOrder)
    /\ Len(history) <= Len(sigLog)
    /\ \A r \in Reqs :
          /\ fkind[r] \in {"val", "ref"} =>
                /\ Enqueued(r) <= 1
                /\ Dispatched(r) => (Enqueued(r) = 1 /\ Signalled(r))
          /\ fkind[r] = "pass" =>
                /\ Enqueued(r) = 0
                /\ ~InChannel(r) /\ ~InQueue(r) /\ ~Signalled(r)
                /\ sendRes[r] = "none"
                /\ Dispatched(r)

\* The worker has not taken a step and a throttled request waits in the
\* channel, undispatched, while a pass-through request made after it has
\* completed.
C16_Witness ==
    \E r, q \in Reqs :
        /\ wpc = "recv" /\ sigLog = <<>>
        /\ fkind[r] \in {"val", "ref"} /\ InChannel(r) /\ ~Dispatched(r)
        /\ r < q /\ fkind[q] = "pass" /\ fstate[q] = "Done" /\ result[q] = "ok"

\* C17: a throttled future made by send() or send_ref() that has not been
\* polled is in Registering (or was dropped from it); its admission request
\* has not entered the channel or the queue, it has not been signalled, its
\* send has no result and its underlying call has not been started.
C17_NoWorkBeforePoll ==
    \A r \in Reqs :
        (fkind[r] \in {"val", "ref"} /\ lastPoll[r] = "none")
        => /\ fstate[r] \in {"Registering", "Dropped"}
           /\ Enqueued(r) = 0
           /\ ~InChannel(r) /\ ~InQueue(r)
           /\ ~Signalled(r)
           /\ \A i \in DOMAIN history : history[i].chat = fchat[r] =>
                 \E q \in Reqs : q # r /\ fchat[q] = fchat[r] /\ Signalled(q)
           /\ sendRes[r] = "none"
           /\ ~Dispatched(r)
           /\ result[r] = "none"

\* A future that was never polled, while a request made after it has filled
\* the whole channel.
C17_Witness ==
    \E r, q \in Reqs :
        /\ r < q
        /\ fstate[r] = "Registering" /\ lastPoll[r] = "none"
        /\ InChannel(q) /\ Len(chan) = limits.messages_per_sec_overall
        /\ WorkerRuns

\* C18: a poll of a throttled future that is in Done is reported as an error:
\* what the last poll of a future in Done returned is either the Ready that
\* completed it or an error, never an ordinary Pending.
C18_PollAfterDoneIsError ==
    \A r \in Reqs :
        (fkind[r] \in {"val", "ref"} /\ fstate[r] = "Done")
        => lastPoll[r] \in {"Ready", "Error"}

\* The time since the first signal of the worker, which in the scenario is
\* signalled at time 0.
Now == IF sigLog = <<>> THEN 0 ELSE sigLog[1].age

\* The time at which the i-th admission was signalled.
SignalTime(i) == sigLog[1].age - sigLog[i].age

\* Admissions signalled at a time t with from <= t < to.
SignalledDuring(from, to) ==
    Cardinality({i \in DOMAIN sigLog : from <= SignalTime(i) /\ SignalTime(i) < to})

\* C19: in the scenario "global cap binds", N being messages_per_sec_overall:
\* never more than N requests are signalled during [0, 1s) or during [1s, 2s);
\* once the first second is over exactly N were signalled during it, and once
\* the second second is over exactly N were signalled during it, which makes
\* all 2N.
C19_GlobalCapBinds ==
    LET N == limits.messages_per_sec_overall
    IN  /\ SignalledDuring(0, SECOND) <= N
        /\ SignalledDuring(SECOND, 2 * SECOND) <= N
        /\ Now >= SECOND => SignalledDuring(0, SECOND) = N
        /\ Now >= 2 * SECOND =>
              /\ SignalledDuring(SECOND, 2 * SECOND) = N
              /\ Len(sigLog) = 2 * N

\* Two seconds after the start with N = 3: three requests were signalled in
\* the first second, one of them at 250 ms, and the other three in the second
\* one.
C19_Witness ==
    /\ limits.messages_per_sec_overall = 3
    /\ Now = 2 * SECOND
    /\ SignalledDuring(0, SECOND) = 3
    /\ SignalledDuring(DELAY, SECOND) = 1
    /\ SignalledDuring(SECOND, 2 * SECOND) = 3

\* What the worker is about to run its iteration on: the queue with the
\* content of the channel, and the tallies and budget at the start of the walk.
WalkQueue == queue \o chan
WalkPerMin == TrimHistory(history, per_min).per_min
WalkPerSec == CountChats(TakeWhileLastSec(TrimHistory(history, per_min).history), per_sec)
WalkAllowed ==
    SaturatingSub(limits.messages_per_sec_overall,
                  Len(TakeWhileLastSec(TrimHistory(history, per_min).history)))

\* C20: when the worker is about to run an iteration with a positive budget,
\* the first entry of the queue, of key K, is admitted in that iteration if and
\* only if S[K] < messages_per_sec_chat and M[K] < messages_per_min_chat, S
\* and M being the per-second and the per-minute tally at that moment.
C20_EligibilityTest ==
    (/\ wpc = "recv" \/ (wpc = "sleep" /\ sleepLeft = 0)
     /\ SendersAlive
     /\ WalkQueue # <<>>
     /\ WalkAllowed > 0)
    => LET K == Head(WalkQueue).chat
           adm == Iteration(WalkQueue).admitted
       IN  (adm # <<>> /\ adm[1] = Head(WalkQueue))
           <=> (/\ Get(WalkPerSec, K) < limits.messages_per_sec_chat
                /\ Get(WalkPerMin, K) < limits.messages_per_min_chat)

\* History after the trim the worker does at the start of an iteration run now.
WalkHistory == TrimHistory(history, per_min).history

\* Records of history h that are younger than a second.
LastSecondRecords(h) == {i \in DOMAIN h : h[i].age < SECOND}

\* C21: in the iteration the worker would run now, `used` is the number of
\* records of H younger than a second, whatever older records H holds, and
\* allowed is max(0, messages_per_sec_overall - used).
C21_GlobalBudget ==
    LET used == Len(TakeWhileLastSec(WalkHistory))
    IN  /\ used = Cardinality(LastSecondRecords(WalkHistory))
        /\ WalkAllowed = Max(0, limits.messages_per_sec_overall - used)

\* C22: at the start of the admit walk the worker would run now, for every
\* chat key K, S[K] is the number of records of H of chat K younger than a
\* second, and the keys with no such record are absent from S.
C22_PerSecondTally ==
    WalkAllowed > 0 =>
        \A k \in Keys :
            LET n == Cardinality({i \in LastSecondRecords(WalkHistory) :
                                     WalkHistory[i].chat = k})
            IN  /\ Get(WalkPerSec, k) = n
                /\ k \in DOMAIN WalkPerSec <=> n > 0

\* Tally m counts exactly the records of history h, chat by chat, with no
\* entry of count zero.
ExactTally(m, h) ==
    /\ DOMAIN m = {h[i].chat : i \in DOMAIN h}
    /\ \A k \in DOMAIN m :
          /\ m[k] = Cardinality({i \in DOMAIN h : h[i].chat = k})
          /\ m[k] >= 1

RECURSIVE SumCounts(_)
SumCounts(m) ==
    IF DOMAIN m = {} THEN 0
    ELSE LET k == CHOOSE x \in DOMAIN m : TRUE
         IN  m[k] + SumCounts([x \in (DOMAIN m) \ {k} |-> m[x]])

\* C23: in every state, and after the trim of an iteration run now, M counts
\* exactly the records of H chat by chat, no entry of M is zero (so that the
\* decrement of the trim never goes below zero), and the counts of M add up
\* to the length of H.
C23_PerMinuteTallyExact ==
    /\ ExactTally(per_min, history)
    /\ SumCounts(per_min) = Len(history)
    /\ ExactTally(WalkPerMin, WalkHistory)
    /\ SumCounts(WalkPerMin) = Len(WalkHistory)

\* The worker has just run an iteration; an admission older than a minute has
\* been trimmed from H and from M, whose entry for that chat is gone, while M
\* counts two admissions of another chat.
C23_Witness ==
    /\ wpc = "sleep" /\ sleepLeft = DELAY
    /\ Len(history) < Len(sigLog)
    /\ \E i \in DOMAIN sigLog : sigLog[i].chat \notin DOMAIN per_min
    /\ \E k \in DOMAIN per_min : per_min[k] = 2

\* C24: after the trim of an iteration run now, and in the state the worker
\* leaves after an iteration, H holds no record older than a minute; and
\* the record of every admission signalled less than a minute ago is in H.
C24_HistoryLastMinute ==
    /\ \A i \in DOMAIN WalkHistory : WalkHistory[i].age <= MINUTE
    /\ (wpc = "sleep" /\ sleepLeft = DELAY) =>
          \A i \in DOMAIN history : history[i].age <= MINUTE
    /\ WorkerRuns =>
          /\ Len(WalkHistory) <= Len(sigLog)
          /\ \A i \in DOMAIN sigLog :
                sigLog[i].age < MINUTE =>
                  LET j == i - (Len(sigLog) - Len(WalkHistory))
                  IN  /\ j >= 1
                      /\ WalkHistory[j] = [chat |-> sigLog[i].chat, age |-> sigLog[i].age]

\* The worker has just run an iteration that trimmed an admission older than
\* a minute and kept one that is younger.
C24_Witness ==
    /\ wpc = "sleep" /\ sleepLeft = DELAY
    /\ \E i \in DOMAIN sigLog : sigLog[i].age > MINUTE
    /\ Len(history) < Len(sigLog)
    /\ \E i \in DOMAIN history : history[i].age > 0 /\ history[i].age <= MINUTE

\* C25: the records of H are in order of time, the oldest at the front: no
\* record is younger than a record behind it.
C25_HistoryTimeOrdered ==
    \A i, j \in DOMAIN history : i < j => history[i].age >= history[j].age

\* H holds an older record followed by two records of one iteration.
C25_Witness ==
    /\ Len(history) >= 3
    /\ history[1].age > history[2].age
    /\ history[2].age = history[3].age

\* A step in which the worker ran the body of an iteration: it is the only
\* step that starts a sleep.
IterationStep == sleepLeft' > sleepLeft

\* The admissions signalled in this step.
NewSignals == SubSeq(sigLog', Len(sigLog) + 1, Len(sigLog'))

AdmittedNow(r) == \E i \in DOMAIN NewSignals : NewSignals[i].req = r

\* The entries in front of position i of the walked queue that are admitted in
\* this step.
AdmittedBefore(i) ==
    LET IsAdmitted(e) == AdmittedNow(e.tx)
    IN  SelectSeq(SubSeq(WalkQueue, 1, i - 1), IsAdmitted)

\* The i-th entry of the walked queue, of key K, is eligible when the walk
\* visits it: S[K] < messages_per_sec_chat and M[K] < messages_per_min_chat,
\* S and M being the tallies of the start of the walk with the admissions made
\* in front of the entry counted in.
EligibleWhenVisited(i) ==
    LET K == WalkQueue[i].chat
        S == CountChats(AdmittedBefore(i), WalkPerSec)
        M == CountChats(AdmittedBefore(i), WalkPerMin)
    IN  /\ Get(S, K) < limits.messages_per_sec_chat
        /\ Get(M, K) < limits.messages_per_min_chat

\* C26: in every iteration the admitted entries are, in the order of Q, the
\* first `allowed` entries of Q that pass the eligibility test when visited:
\* every admitted entry passes it, the admitted are at most `allowed`, and an
\* entry that passes it is left in Q only if `allowed` entries in front of it
\* were admitted, none behind it.
C26_GlobalFifo ==
    [][IterationStep =>
        LET IsAdmitted(e) == AdmittedNow(e.tx)
            inOrder == SelectSeq(WalkQueue, IsAdmitted)
        IN  /\ Len(NewSignals) <= WalkAllowed
            /\ Len(inOrder) = Len(NewSignals)
            /\ \A i \in DOMAIN NewSignals : NewSignals[i].req = inOrder[i].tx
            /\ \A i \in DOMAIN WalkQueue :
                  /\ AdmittedNow(WalkQueue[i].tx) => EligibleWhenVisited(i)
                  /\ (~AdmittedNow(WalkQueue[i].tx) /\ EligibleWhenVisited(i)) =>
                        /\ Len(AdmittedBefore(i)) = WalkAllowed
                        /\ \A j \in DOMAIN WalkQueue :
                              j > i => ~AdmittedNow(WalkQueue[j].tx)]_vars

\* Position at which request r entered the channel.
EnqPos(r) == CHOOSE i \in DOMAIN enqOrder : enqOrder[i] = r

\* C27: in every iteration, an entry of another chat that stands behind an
\* entry that fails the eligibility test, and that passes the test itself when
\* visited with fewer than `allowed` admissions made in front of it, is
\* admitted in that same iteration.
C27_IneligibleDoesNotBlock ==
    [][IterationStep =>
        \A i, j \in DOMAIN WalkQueue :
            (/\ i < j
             /\ ~EligibleWhenVisited(i)
             /\ WalkQueue[j].chat # WalkQueue[i].chat
             /\ EligibleWhenVisited(j)
             /\ Len(AdmittedBefore(j)) < WalkAllowed)
            => AdmittedNow(WalkQueue[j].tx)]_vars

\* The worker has just admitted a request past an entry of another chat that
\* entered before it and is still in the queue, held back by its chat's own
\* admission of the last second.
C27_Witness ==
    /\ wpc = "sleep" /\ sleepLeft = DELAY
    /\ \E i \in DOMAIN sigLog, j \in DOMAIN queue :
          /\ sigLog[i].age = 0
          /\ queue[j].chat # sigLog[i].chat
          /\ EnqPos(queue[j].tx) < EnqPos(sigLog[i].req)
          /\ SignalsWithin(queue[j].chat, SECOND) >= limits.messages_per_sec_chat

\* C28: whenever the queue, the channel or the admissions change, either a
\* request was appended at the tail of the channel and the queue is as it
\* was, or the worker took the channel's content to the tail of the queue and
\* the queue is now that sequence without the entries admitted in this step,
\* the others in their order, none lost and none twice, and the admitted
\* are exactly the entries that left it.
C28_BacklogOrder ==
    [][(queue' # queue \/ chan' # chan \/ Len(sigLog') # Len(sigLog)) =>
        \/ /\ queue' = queue
           /\ Len(sigLog') = Len(sigLog)
           /\ Len(chan') = Len(chan) + 1
           /\ SubSeq(chan', 1, Len(chan)) = chan
        \/ LET IsKept(e) == ~AdmittedNow(e.tx)
               IsAdmitted(e) == AdmittedNow(e.tx)
           IN  /\ chan' = <<>>
               /\ queue' = SelectSeq(WalkQueue, IsKept)
               /\ Len(SelectSeq(WalkQueue, IsAdmitted)) = Len(NewSignals)
               /\ \A i, j \in DOMAIN queue' : i # j => queue'[i].tx # queue'[j].tx]_vars

\* The worker has just run a walk that stopped when the budget reached 0:
\* it admitted one entry and left behind in the queue an entry it did not
\* visit, of a chat that was never admitted.
C28_Witness ==
    /\ wpc = "sleep" /\ sleepLeft = DELAY
    /\ \E i \in DOMAIN sigLog : sigLog[i].age = 0
    /\ queue # <<>>
    /\ \A i \in DOMAIN sigLog : sigLog[i].chat # queue[1].chat

\* C29: in every iteration the entries signalled are at most the `allowed`
\* computed at its start; what is left of `allowed` at the end is that value
\* less the number of entries signalled and is not below 0; and once it is 0
\* no entry behind the last admitted one is signalled.
C29_AdmissionsWithinBudget ==
    [][IterationStep =>
        LET left == Iteration(WalkQueue).allowed
        IN  /\ Len(NewSignals) <= WalkAllowed
            /\ left = WalkAllowed - Len(NewSignals)
            /\ left >= 0
            /\ left = 0 =>
                  \A i \in DOMAIN WalkQueue :
                      Len(AdmittedBefore(i)) = WalkAllowed => ~AdmittedNow(WalkQueue[i].tx)]_vars

\* The worker has just signalled an entry that used up what was left of the
\* budget of this second, an earlier admission having taken the rest, and an
\* entry that passes the per-chat test is still in the queue.
C29_Witness ==
    /\ wpc = "sleep" /\ sleepLeft = DELAY
    /\ \E i \in DOMAIN sigLog : sigLog[i].age = 0
    /\ \E i \in DOMAIN sigLog : sigLog[i].age > 0 /\ sigLog[i].age < SECOND
    /\ AllSignalsWithin(SECOND) = limits.messages_per_sec_overall
    /\ queue # <<>>
    /\ SignalsWithin(queue[1].chat, SECOND) < limits.messages_per_sec_chat

\* C30: an iteration that finds allowed = 0 signals nothing and closes no
\* sender, leaves H and M as the trim left them, leaves in Q what it read,
\* leaves S empty and starts a sleep of DELAY; and while that sleep lasts the
\* worker changes neither Q nor H nor the admissions.
C30_ThrottlePause ==
    /\ [][(IterationStep /\ WalkAllowed = 0) =>
            /\ sigLog' = sigLog
            /\ closed' = closed
            /\ history' = WalkHistory
            /\ per_min' = WalkPerMin
            /\ queue' = WalkQueue
            /\ per_sec' = EmptyMap
            /\ wpc' = "sleep"
            /\ sleepLeft' = DELAY]_vars
    /\ [][(wpc = "sleep" /\ sleepLeft > 0) =>
            /\ queue' = queue
            /\ Len(history') = Len(history)
            /\ Len(sigLog') = Len(sigLog)
            /\ per_min' = per_min]_vars

\* The worker has just paused: the budget of this second is used up, nothing
\* was signalled in this iteration, and an entry that passes the per-chat
\* test waits in the queue.
C30_Witness ==
    /\ wpc = "sleep" /\ sleepLeft = DELAY
    /\ \A i \in DOMAIN sigLog : sigLog[i].age > 0
    /\ AllSignalsWithin(SECOND) >= limits.messages_per_sec_overall
    /\ queue # <<>>
    /\ SignalsWithin(queue[1].chat, SECOND) < limits.messages_per_sec_chat

\* A step the worker takes when its sleep has run out.
WakeStep == wpc = "sleep" /\ sleepLeft = 0 /\ (wpc' # "sleep" \/ sleepLeft' > 0)

\* C31: the worker waits in the blocking receive only with an empty queue, and
\* with a non-empty queue every time its sleep of DELAY has run out it takes
\* what the channel holds without waiting and runs the body of the loop again,
\* up to its next sleep of DELAY, whether or not a request ever arrives.
C31_BlocksOnlyWhenEmpty ==
    /\ [](wpc = "recv" => queue = <<>>)
    /\ [][(WakeStep /\ queue # <<>>) =>
            /\ chan' = <<>>
            /\ wpc' = "sleep"
            /\ sleepLeft' = DELAY]_vars

\* Position in history of the record of the i-th admission of sigLog, 0 if
\* history no longer holds it: history is the tail of the admissions.
RecordPos(i) == IF i > Len(sigLog) - Len(history) THEN i - (Len(sigLog) - Len(history)) ELSE 0

\* The admissions of chat k whose record history holds.
RecordedSignals(k) == {i \in DOMAIN sigLog : sigLog[i].chat = k /\ RecordPos(i) > 0}

\* The walk of the iteration that starts now, before per_sec is cleared.
WalkResult ==
    AdmitWalk(WalkQueue, <<>>, WalkPerSec, WalkPerMin, WalkHistory, WalkAllowed, <<>>)

StatesNow(r) == <<fstate[r]>> \o SubSeq(trace'[r], Len(trace[r]) + 1, Len(trace'[r]))

\* One state change of a request future and the event that allows it.
Transition(r, a, b) ==
    \/ a = "Registering" /\ b = "Pending" /\ sendRes'[r] = "ok"
    \/ a = "Registering" /\ b = "Sent" /\ sendRes'[r] = "err"
    \/ a = "Pending" /\ b = "Sent" /\ closed[r]
    \/ a = "Sent" /\ b = "Done" /\ callOut'[r] # "none"

\* C33: a request future changes state only by Registering -> Pending (send
\* succeeded), Registering -> Sent (send failed), Pending -> Sent (sender
\* closed) and Sent -> Done (call completed); it never leaves Done; and while
\* the event it waits for is not ready (the channel is full, the sender is
\* not closed) a poll leaves its state as it is.
C33_TransitionRelation ==
    [][\A r \in Reqs :
        (fstate[r] \in {"Registering", "Pending", "Sent", "Done"} /\ fstate'[r] # "Dropped")
        => /\ trace[r] = SubSeq(trace'[r], 1, Len(trace[r]))
           /\ StatesNow(r)[Len(StatesNow(r))] = fstate'[r]
           /\ \A i \in 1..(Len(StatesNow(r)) - 1) :
                 Transition(r, StatesNow(r)[i], StatesNow(r)[i + 1])
           /\ fstate[r] = "Done" => fstate'[r] = "Done"
           /\ (fstate[r] = "Registering" /\ SendPoll = "pending") => fstate'[r] = "Registering"
           /\ (fstate[r] = "Pending" /\ ~closed[r]) => fstate'[r] = "Pending"
           /\ (fstate[r] = "Sent" /\ callOut'[r] = "none") => fstate'[r] = "Sent"]_vars

\* One future went Registering, Pending, Sent, Done and was polled again in
\* Done; another went from Registering straight to Sent and on to Done.
C33_Witness ==
    \E r, q \in Reqs :
        /\ trace[r] = <<"Registering", "Pending", "Sent", "Done">>
        /\ fstate[r] = "Done" /\ lastPoll[r] = "Pending"
        /\ trace[q] = <<"Registering", "Sent", "Done">>
        /\ fstate[q] = "Done"

\* What send.poll(cx) and fut.poll(cx) can return.
PollOutcomes == {"pending", "ok", "err"}

\* C34: the arms of ThrottlingSend::poll and of ThrottlingSendRef::poll give
\* the same next state and the same value for every outcome of the send, of
\* the wait and of the underlying call; and a by-value and a by-reference
\* future that met the same events (same result of the send, same state
\* reached, same result of the call) went through the same states and
\* yielded the same value.
C34_SameStateMachine ==
    /\ \A res \in PollOutcomes : AfterRegistering(res) = RefAfterRegistering(res)
    /\ \A ready \in BOOLEAN : AfterPending(ready) = RefAfterPending(ready)
    /\ \A out \in PollOutcomes :
          AfterSent(out) = RefAfterSent(out) /\ Ready(out) = RefReady(out)
    /\ \A r, q \in Reqs :
          (/\ fkind[r] = "val" /\ fkind[q] = "ref"
           /\ fstate[r] \in {"Registering", "Pending", "Sent", "Done"}
           /\ fstate[q] = fstate[r]
           /\ sendRes[q] = sendRes[r]
           /\ callOut[q] = callOut[r])
          => /\ trace[q] = trace[r]
             /\ result[q] = result[r]

\* A by-value and a by-reference future both went through Registering,
\* Pending, Sent and Done and both yielded the error of their call.
C34_Witness ==
    \E r, q \in Reqs :
        /\ fkind[r] = "val" /\ fkind[q] = "ref"
        /\ trace[r] = <<"Registering", "Pending", "Sent", "Done">>
        /\ trace[q] = trace[r]
        /\ callOut[r] = "err" /\ callOut[q] = "err"
        /\ result[r] = "err" /\ result[q] = "err"

\* The records of h whose key is k: same variant and same number.
RecordsOf(h, k) == SelectSeq(h, LAMBDA e : e.chat.tag = k.tag /\ e.chat.v = k.v)

\* C35: the key of a numeric chat id is never the key of a channel username,
\* even when the username's hash is that number; the tally M of a key counts
\* the records of that key only; and in every iteration an entry whose own
\* key has no record of the last second and no admission in front of it, met
\* with budget left and limits of at least 1, is admitted whatever was
\* recorded for keys of the other variant.
C35_KeysDistinct ==
    /\ [](/\ \A c, d \in ChatIds : c.tag # d.tag => ChatIdHash(c) # ChatIdHash(d)
          /\ \E c, d \in ChatIds : c.tag # d.tag /\ ChatIdHash(c).v = ChatIdHash(d).v
          /\ WorkerRuns => \A k \in Keys : Get(per_min, k) = Len(RecordsOf(history, k)))
    /\ [][IterationStep =>
            \A i \in DOMAIN WalkQueue :
                LET K == WalkQueue[i].chat
                IN  (/\ RecordsOf(TakeWhileLastSec(WalkHistory), K) = <<>>
                     /\ RecordsOf(AdmittedBefore(i), K) = <<>>
                     /\ Len(AdmittedBefore(i)) < WalkAllowed
                     /\ limits.messages_per_sec_chat >= 1
                     /\ limits.messages_per_min_chat >= 1)
                    => AdmittedNow(WalkQueue[i].tx)]_vars

\* With one message per second and chat, the worker has just admitted in
\* one iteration a request to the numeric id 1 and a request to a channel
\* username whose hash is 1.
C35_Witness ==
    /\ limits.messages_per_sec_chat = 1
    /\ \E i, j \in DOMAIN sigLog :
          /\ sigLog[i].age = 0 /\ sigLog[j].age = 0
          /\ sigLog[i].chat.tag = "Id" /\ sigLog[j].chat.tag = "ChannelUsernameHash"
          /\ sigLog[i].chat.v = sigLog[j].chat.v

\* limits_not_exceeded for the i-th entry of the walked queue, with the
\* tallies the walk has when it visits the entry.
PassesTestWhenVisited(i) ==
    LimitsNotExceeded(CountChats(AdmittedBefore(i), WalkPerSec),
                      CountChats(AdmittedBefore(i), WalkPerMin),
                      WalkQueue[i].chat)

\* C36: the drop of a future leaves its entry in the channel or in the queue;
\* and in every iteration an entry is admitted exactly if it passes the
\* worker's test when visited with budget left, whether its future was
\* dropped or not, every admitted entry, dropped ones too, being counted in
\* the budget, recorded in H and counted in M.
C36_CancelledAdmittedAlike ==
    /\ [][\A r \in Reqs :
            (fstate[r] # "Dropped" /\ fstate'[r] = "Dropped")
            => (queue' = queue /\ chan' = chan)]_vars
    /\ [][IterationStep =>
            /\ \A i \in DOMAIN WalkQueue :
                  AdmittedNow(WalkQueue[i].tx)
                  <=> (PassesTestWhenVisited(i) /\ Len(AdmittedBefore(i)) < WalkAllowed)
            /\ Len(NewSignals) <= WalkAllowed
            /\ Len(history') = Len(WalkHistory) + Len(NewSignals)
            /\ \A k \in Keys :
                  Get(per_min', k) = Get(WalkPerMin, k) + Len(RecordsOf(NewSignals, k))]_vars

\* With one message per second and chat, the worker has just admitted the
\* entry of a future that had been dropped before, and a later request of the
\* same chat whose future waits in Pending is held back in the queue.
C36_Witness ==
    /\ limits.messages_per_sec_chat = 1
    /\ wpc = "sleep" /\ sleepLeft = DELAY
    /\ \E i \in DOMAIN sigLog, q \in Reqs :
          /\ ~sigLog[i].live /\ sigLog[i].age = 0
          /\ fstate[sigLog[i].req] = "Dropped"
          /\ fstate[q] = "Pending" /\ InQueue(q)
          /\ fchat[q] = sigLog[i].chat
          /\ EnqPos(sigLog[i].req) < EnqPos(q)

\* How many entries of the sequence s of (chat, sender) pairs hold the sender
\* of request r.
EntriesOf(s, r) == Cardinality({i \in DOMAIN s : s[i].tx = r})

\* How many times the worker signalled request r.
SignalsOf(r) == Cardinality({i \in DOMAIN sigLog : sigLog[i].req = r})

\* C37: while the worker lives, every admission request that left the channel
\* is either once in Q, not signalled and its sender open, or not in Q,
\* signalled once and its sender closed; H holds one record for every signal
\* of the last minute and no other; the entries of Q, and after them those of
\* the channel, stand in the order in which they entered the channel; and in
\* every step the records appended to H are as many as the signals.
C37_Conservation ==
    /\ [](WorkerRuns =>
            /\ \A r \in Reqs :
                  (Enqueued(r) >= 1 /\ ~InChannel(r))
                  => \/ /\ EntriesOf(queue, r) = 1
                        /\ SignalsOf(r) = 0
                        /\ ~closed[r]
                     \/ /\ EntriesOf(queue, r) = 0
                        /\ SignalsOf(r) = 1
                        /\ closed[r]
            /\ \A r \in Reqs : Enqueued(r) = 0 => (EntriesOf(queue, r) = 0 /\ SignalsOf(r) = 0)
            /\ \A r \in Reqs : InChannel(r) => (EntriesOf(queue, r) = 0 /\ SignalsOf(r) = 0)
            /\ HistoryIsLogSuffix
            /\ \A i \in DOMAIN sigLog : sigLog[i].age <= MINUTE => RecordPos(i) > 0
            /\ \A i, j \in DOMAIN WalkQueue :
                  i < j => EnqPos(WalkQueue[i].tx) < EnqPos(WalkQueue[j].tx))
    /\ [][WorkerRuns' =>
            /\ Len(history') <= Len(history) + (Len(sigLog') - Len(sigLog))
            /\ Len(sigLog') > Len(sigLog) =>
                  Len(history') = Len(WalkHistory) + (Len(sigLog') - Len(sigLog))]_vars

\* Of three requests that entered the channel one after the other, the first
\* has been signalled and has its record in H, the second waits in Q and the
\* third is in the channel.
C37_Witness ==
    \E a, b, c \in Reqs :
        /\ WorkerRuns
        /\ Signalled(a) /\ closed[a] /\ RecordPos(SigPos(a)) > 0
        /\ InQueue(b) /\ ~closed[b]
        /\ InChannel(c)
        /\ EnqPos(a) < EnqPos(b) /\ EnqPos(b) < EnqPos(c)

\* How many times the underlying call of request r was started.
StartsOf(r) == Cardinality({i \in DOMAIN dispLog : dispLog[i] = r})

\* Request r has been in state Sent.
ReachedSent(r) == \E i \in DOMAIN trace[r] : trace[r][i] = "Sent"

\* C38: the underlying call of a throttled future, by value or by reference,
\* is started at most once however often the future is polled: once if the
\* future has reached Sent, by the normal or by the degraded path, and never
\* if it has not, in particular if it was dropped in Registering or Pending.
C38_AtMostOnceDispatch ==
    \A r \in Reqs :
        fkind[r] \in {"val", "ref"}
        => /\ StartsOf(r) <= 1
           /\ ReachedSent(r) <=> StartsOf(r) = 1
           /\ (fstate[r] = "Dropped" /\ ~ReachedSent(r)) => StartsOf(r) = 0

\* One future has completed and has been polled again after that, its call
\* started once; another was dropped while it waited in Pending, its call
\* never started.
C38_Witness ==
    \E r, q \in Reqs :
        /\ fkind[r] \in {"val", "ref"}
        /\ fstate[r] = "Done" /\ lastPoll[r] = "Pending" /\ StartsOf(r) = 1
        /\ fstate[q] = "Dropped" /\ trace[q] = <<"Registering", "Pending">>
        /\ StartsOf(q) = 0

\* One of the limits is 0.
ZeroLimit ==
    \/ limits.messages_per_sec_chat = 0
    \/ limits.messages_per_min_chat = 0
    \/ limits.messages_per_sec_overall = 0

\* C39: with one of the limits at 0 the worker never signals an admission
\* request; as long as the worker lives every future whose send succeeded and
\* that was not dropped is in Pending, its call not started; the worker never
\* comes to the end of its loop; and while it lives no entry leaves Q.
C39_ZeroLimitAdmitsNothing ==
    /\ [](ZeroLimit =>
            /\ sigLog = <<>>
            /\ wpc # "done"
            /\ \A r \in Reqs :
                  (WorkerRuns /\ sendRes[r] = "ok" /\ fstate[r] # "Dropped")
                  => (fstate[r] = "Pending" /\ ~closed[r] /\ ~Dispatched(r)))
    /\ [][(ZeroLimit /\ WorkerRuns') =>
            \A i \in DOMAIN queue : i \in DOMAIN queue' /\ queue'[i] = queue[i]]_vars

\* With a per-chat limit of 0 the worker has run its iteration and sleeps,
\* two requests are in its queue, both futures have been polled and wait in
\* Pending, and nothing was signalled.
C39_Witness ==
    /\ ZeroLimit
    /\ wpc = "sleep"
    /\ sigLog = <<>>
    /\ Len(queue) = 2
    /\ \A i \in DOMAIN queue :
          fstate[queue[i].tx] = "Pending" /\ lastPoll[queue[i].tx] = "Pending"

\* C40: S is empty whenever the worker is at an await point, so at the start
\* of every iteration; and the S an iteration tests entries against counts
\* exactly the records of H it takes for the last second, nothing of an
\* earlier iteration.
C40_PerSecondTransient ==
    /\ per_sec = EmptyMap
    /\ WorkerRuns =>
          \A k \in Keys :
              Get(WalkPerSec, k) = Len(RecordsOf(TakeWhileLastSec(WalkHistory), k))

\* The worker has just admitted two requests of one chat in one iteration
\* and sleeps; S is empty while M counts both.
C40_Witness ==
    /\ wpc = "sleep" /\ sleepLeft = DELAY
    /\ per_sec = EmptyMap
    /\ \E i, j \in DOMAIN sigLog :
          /\ i < j
          /\ sigLog[i].age = 0 /\ sigLog[j].age = 0
          /\ sigLog[i].chat = sigLog[j].chat
          /\ Get(per_min, sigLog[i].chat) >= 2

====
